---- MODULE Spec2Model ----
(***************************************************************************)
(* The transport layer of berserk: the format handlers of formats.py, the  *)
(* Requestor of session.py and the errors of exceptions.py.                *)
(*                                                                         *)
(* A text is a sequence of lexemes (one-character strings, and the string  *)
(* literals "id" and "createdAt" and the literal null taken as one lexeme  *)
(* each).  A response body is the sequence of lines Response.iter_lines()  *)
(* produces; the text of the body is these lines, each ended by a newline. *)
(***************************************************************************)
EXTENDS Integers, Sequences, FiniteSets, TLC

VARIABLES
    pc,               \* position of the caller: idle, in_session, returned, raised
    call,             \* the arguments of Requestor.request
    fmt,              \* the local variable fmt of Requestor.request
    sent,             \* what session.request was given: method, headers, stream
    response,         \* the requests.Response session.request returned
    thrown,           \* the exception session.request raised
    exc,              \* the exception that reached the caller last
    result,           \* the value Requestor.request returned (buffered mode)
    it,               \* the generator of parse_stream: none, fresh, active, at_final, done
    pos,              \* lines of the body iter_lines() has handed to parse_stream
    lines,            \* PgnHandler.parse_stream: the local list lines
    last_line,        \* PgnHandler.parse_stream: truthiness of the local last_line
    yielded,          \* the units parse_stream has yielded so far
    delivered,        \* the values next() has returned to the caller so far
    last,             \* outcome of the latest next(): none, item, stop, decode_error, conv_error
    extra,            \* next() calls made after the iterator ended
    netCalls,         \* invocations of session.request
    parseCalls,       \* invocations of fmt.parse
    parseStreamCalls, \* invocations of fmt.parse_stream
    decodeCalls,      \* invocations of json.loads by JsonHandler.parse_stream
    convCalls,        \* invocations of the converter
    convArgs,         \* the arguments the converter was invoked with, in order
    causeDecodes,     \* invocations of response.json() by ResponseError.cause
    causeReads,       \* reads of the property cause of the ResponseError
    lastCause,        \* the value the latest read of cause returned
    convOp,           \* the converter applied to a record: none, convert_one, convert, inner
    convIn,           \* the record handed to that converter
    convOut,          \* what the converter returned, ok = FALSE when it raised
    client,           \* the Client: the pgn_as_default it was constructed with
    apiCall,          \* the client method called: its class, its name, its as_pgn
    gen,              \* the object the method returned: none, not_generator, created, started
    oauth,            \* OAuth.get_code: its state, the response, what it returned
    requestor,        \* the attributes of the Requestor: session, base_url, default_fmt
    threads           \* the call of Requestor.request each thread is making

vars == <<pc, call, fmt, sent, response, thrown, exc, result, it, pos, lines, last_line,
          yielded, delivered, last, extra, netCalls, parseCalls, parseStreamCalls,
          decodeCalls, convCalls, convArgs, causeDecodes, causeReads, lastCause,
          convOp, convIn, convOut, client, apiCall, gen, oauth, requestor, threads>>

(***************************************************************************)
(* Bounds of the model.                                                    *)
(***************************************************************************)
MaxLines == 2       \* lines of a response body (Spec)
MaxPgnLines == 6    \* lines of a PGN stream (SpecPgn)
MaxExtra == 1       \* next() calls after the end of a sequence
MaxReads == 3       \* reads of the cause of one ResponseError (SpecErr)
MaxMillis == 1      \* largest integer value of a record's field (SpecConv)

(***************************************************************************)
(* Texts.                                                                  *)
(***************************************************************************)
NL == "\n"
SP == " "
Whitespace == {SP, NL}
Digits == {"1", "2"}
StringLexemes == {"id", "createdAt"}

NoneVal == [t |-> "None", v |-> 0]
IntVal(n) == [t |-> "int", v |-> n]
StrVal(s) == [t |-> "str", v |-> s]
ListVal(s) == [t |-> "list", v |-> s]
DictVal(f) == [t |-> "dict", v |-> f]
DatetimeVal(ms) == [t |-> "datetime", v |-> ms]
BytesVal(s) == [t |-> "bytes", v |-> s]

RECURSIVE Join(_, _)
\* sep.join(ls) for a list of texts
Join(ls, sep) ==
    IF ls = <<>> THEN <<>>
    ELSE IF Len(ls) = 1 THEN ls[1]
    ELSE ls[1] \o <<sep>> \o Join(Tail(ls), sep)

RECURSIVE LStrip(_)
LStrip(s) == IF s # <<>> /\ Head(s) \in Whitespace THEN LStrip(Tail(s)) ELSE s

RECURSIVE RStrip(_)
RStrip(s) ==
    IF s # <<>> /\ s[Len(s)] \in Whitespace THEN RStrip(SubSeq(s, 1, Len(s) - 1)) ELSE s

\* str.strip()
Strip(s) == RStrip(LStrip(s))

RECURSIVE BodyText(_)
\* Response.text of a body whose lines are these (every line ends with a newline)
BodyText(body) ==
    IF body = <<>> THEN <<>> ELSE Head(body) \o <<NL>> \o BodyText(Tail(body))

(***************************************************************************)
(* json.loads on the subset of JSON over the lexemes above: integers,      *)
(* strings, arrays and objects, with insignificant whitespace.             *)
(***************************************************************************)
DigitValue(c) == IF c = "1" THEN 1 ELSE 2

ParseFail == [ok |-> FALSE, val |-> NoneVal, i |-> 0]
ParseOk(v, i) == [ok |-> TRUE, val |-> v, i |-> i]

RECURSIVE SkipWs(_, _)
SkipWs(s, i) == IF i <= Len(s) /\ s[i] \in Whitespace THEN SkipWs(s, i + 1) ELSE i

RECURSIVE ParseInt(_, _, _)
ParseInt(s, i, acc) ==
    IF i <= Len(s) /\ s[i] \in Digits
    THEN ParseInt(s, i + 1, 10 * acc + DigitValue(s[i]))
    ELSE ParseOk(IntVal(acc), i)

RECURSIVE ParseValue(_, _)
RECURSIVE ParseElems(_, _, _)
RECURSIVE ParseMembers(_, _, _)

ParseValue(s, i0) ==
    LET i == SkipWs(s, i0) IN
    IF i > Len(s) THEN ParseFail
    ELSE IF s[i] \in Digits THEN ParseInt(s, i, 0)
    ELSE IF s[i] \in StringLexemes THEN ParseOk(StrVal(<<s[i]>>), i + 1)
    ELSE IF s[i] = "null" THEN ParseOk(NoneVal, i + 1)
    ELSE IF s[i] = "["
         THEN LET j == SkipWs(s, i + 1) IN
              IF j <= Len(s) /\ s[j] = "]" THEN ParseOk(ListVal(<<>>), j + 1)
              ELSE ParseElems(s, j, <<>>)
    ELSE IF s[i] = "{"
         THEN LET j == SkipWs(s, i + 1) IN
              IF j <= Len(s) /\ s[j] = "}" THEN ParseOk(DictVal(<<>>), j + 1)
              ELSE ParseMembers(s, j, <<>>)
    ELSE ParseFail

ParseElems(s, i, acc) ==
    LET r == ParseValue(s, i) IN
    IF ~r.ok THEN ParseFail
    ELSE LET j == SkipWs(s, r.i) IN
         IF j > Len(s) THEN ParseFail
         ELSE IF s[j] = "," THEN ParseElems(s, j + 1, Append(acc, r.val))
         ELSE IF s[j] = "]" THEN ParseOk(ListVal(Append(acc, r.val)), j + 1)
         ELSE ParseFail

ParseMembers(s, i0, acc) ==
    LET i == SkipWs(s, i0) IN
    IF i > Len(s) \/ s[i] \notin StringLexemes THEN ParseFail
    ELSE LET c == SkipWs(s, i + 1) IN
         IF c > Len(s) \/ s[c] # ":" THEN ParseFail
         ELSE LET r == ParseValue(s, c + 1) IN
              IF ~r.ok THEN ParseFail
              ELSE LET j == SkipWs(s, r.i)
                       d == (s[i] :> r.val) @@ acc
                   IN  IF j > Len(s) THEN ParseFail
                       ELSE IF s[j] = "," THEN ParseMembers(s, j + 1, d)
                       ELSE IF s[j] = "}" THEN ParseOk(DictVal(d), j + 1)
                       ELSE ParseFail

\* json.loads(text): [ok |-> TRUE, val |-> value], or ok = FALSE for JSONDecodeError
JsonLoads(s) ==
    LET r == ParseValue(s, 1) IN
    IF r.ok /\ SkipWs(s, r.i) > Len(s)
    THEN [ok |-> TRUE, val |-> r.val]
    ELSE [ok |-> FALSE, val |-> NoneVal]

(***************************************************************************)
(* Format handlers (formats.py).                                           *)
(***************************************************************************)
TEXT == "TEXT"
JSON == "JSON"
LIJSON == "LIJSON"
NDJSON == "NDJSON"
PGN == "PGN"
None == "None"

Handlers == {TEXT, JSON, LIJSON, NDJSON, PGN}
JsonHandlers == {JSON, LIJSON, NDJSON}

\* FormatHandler.__init__: mime_type of each handler instance
MimeType(h) ==
    CASE h = TEXT -> "text/plain"
      [] h = JSON -> "application/json"
      [] h = LIJSON -> "application/vnd.lichess.v3+json"
      [] h = NDJSON -> "application/x-ndjson"
      [] h = PGN -> "application/x-chess-pgn"

\* FormatHandler.__init__: self.headers
Headers(h) == [Accept |-> MimeType(h)]

\* ndjson.Decoder.decode: the lines joined by commas, inside brackets
NdjsonDecode(body) == JsonLoads(<<"[">> \o Join(body, ",") \o <<"]">>)

\* every JSON handler decodes with the ndjson decoder
ParseAsNdjson(h, body) ==
    CASE h \in JsonHandlers -> NdjsonDecode(body)
      [] OTHER -> [ok |-> TRUE, val |-> StrVal(BodyText(body))]

\* LIJSON is built with the ndjson decoder
ParseLijsonNdjson(h, body) ==
    CASE h = JSON -> JsonLoads(BodyText(body))
      [] h \in {LIJSON, NDJSON} -> NdjsonDecode(body)
      [] OTHER -> [ok |-> TRUE, val |-> StrVal(BodyText(body))]

\* JsonHandler.parse, PgnHandler.parse, TextHandler.parse
Parse(h, body) ==
    CASE h \in {JSON, LIJSON} -> JsonLoads(BodyText(body))
      [] h = NDJSON -> NdjsonDecode(body)
      [] OTHER -> [ok |-> TRUE, val |-> StrVal(BodyText(body))]

(***************************************************************************)
(* Converters (utils.noop, models.Game.convert).                           *)
(***************************************************************************)
Converters == {"noop", "Game"}

\* the keys of models.Game.conversions
GameConversions == {"createdAt", "lastMoveAt"}

ConvFail == [ok |-> FALSE, val |-> NoneVal]
ConvOk(v) == [ok |-> TRUE, val |-> v]

\* utils.datetime_from_millis: TypeError unless the argument is a number
DatetimeFromMillis(v) == IF v.t = "int" THEN ConvOk(DatetimeVal(v.v)) ELSE ConvFail

\* set(x) raises TypeError for an unhashable element
Hashable(v) == v.t \notin {"dict", "list"}

\* the keys that have no conversion are dropped from the record
ConvertOneKeepsConverted(data) ==
    CASE data.t = "dict" ->
            LET ks == DOMAIN data.v \cap GameConversions IN
            IF \A k \in ks : DatetimeFromMillis(data.v[k]).ok
            THEN ConvOk(DictVal([k \in ks |-> DatetimeFromMillis(data.v[k]).val]))
            ELSE ConvFail
      [] OTHER -> ConvFail

\* Model.convert_one, cls = models.Game
ConvertOne(data) ==
    CASE data.t = "dict" ->
            LET ks == DOMAIN data.v \cap GameConversions IN
            IF \A k \in ks : DatetimeFromMillis(data.v[k]).ok
            THEN ConvOk(DictVal([k \in DOMAIN data.v |->
                     IF k \in ks THEN DatetimeFromMillis(data.v[k]).val ELSE data.v[k]]))
            ELSE ConvFail
      [] data.t \in {"str", "bytes"} -> ConvOk(data)
      [] data.t = "list" ->
            IF \A j \in DOMAIN data.v : Hashable(data.v[j]) THEN ConvOk(data) ELSE ConvFail
      [] OTHER -> ConvFail

\* a list is handed to convert_one as it is
ModelConvertNoListBranch(data) == ConvertOne(data)

\* Model.convert, cls = models.Game
ModelConvert(data) ==
    IF data.t = "list"
    THEN IF \A j \in DOMAIN data.v : ConvertOne(data.v[j]).ok
         THEN ConvOk(ListVal([j \in DOMAIN data.v |-> ConvertOne(data.v[j]).val]))
         ELSE ConvFail
    ELSE ConvertOne(data)

RECURSIVE InnerConvertNoCatch(_, _)
\* the KeyError of a key that is not present is not caught
InnerConvertNoCatch(keys, data) ==
    IF keys = <<>> THEN ConvOk(data)
    ELSE IF Head(keys) \notin DOMAIN data.v THEN ConvFail
    ELSE LET r == DatetimeFromMillis(data.v[Head(keys)]) IN
         IF ~r.ok THEN ConvFail
         ELSE InnerConvertNoCatch(Tail(keys),
                                  DictVal([data.v EXCEPT ![Head(keys)] = r.val]))

RECURSIVE InnerConvert(_, _)
\* the converter utils.inner(utils.datetime_from_millis, *keys) returns
InnerConvert(keys, data) ==
    IF keys = <<>> THEN ConvOk(data)
    ELSE IF Head(keys) \notin DOMAIN data.v THEN InnerConvert(Tail(keys), data)
    ELSE LET r == DatetimeFromMillis(data.v[Head(keys)]) IN
         IF ~r.ok THEN ConvFail
         ELSE InnerConvert(Tail(keys), DictVal([data.v EXCEPT ![Head(keys)] = r.val]))

\* the keys of models.Activity.interval
IntervalKeys == <<"start", "end">>

\* converter(arg): ok = FALSE when the converter raises
Convert(c, v) == IF c = "noop" THEN ConvOk(v) ELSE ModelConvert(v)

(***************************************************************************)
(* Exceptions (exceptions.py).                                             *)
(***************************************************************************)
NoInner == [cls |-> "", args |-> <<>>]
NoMessage == [form |-> "", text |-> "", status |-> 0, reason |-> "", cause |-> NoneVal]
TextMessage(t) == [NoMessage EXCEPT !.form = "text", !.text = t]
NoExc == [cls |-> "", message |-> NoMessage, error |-> NoInner, cause |-> NoInner,
          status_code |-> 0, reason |-> "", body_cause |-> NoneVal]

\* ResponseError.__UNDEFINED, the value of _cause before the first read
UndefinedVal == [t |-> "UNDEFINED", v |-> 0]

\* subclasses of requests.RequestException, and an exception that is none
RequestExceptions == {"ConnectionError", "Timeout"}
Raisable == {[cls |-> "ConnectionError", args |-> <<"connection refused">>],
             [cls |-> "Timeout", args |-> <<>>],
             [cls |-> "TypeError", args |-> <<"unexpected keyword argument">>]}

\* get_message
get_message(e) == IF e.args # <<>> THEN e.args[1] ELSE ""

\* an exception of another layer is wrapped in an ApiError
PropagatedWrapped(e) ==
    [NoExc EXCEPT !.cls = "ApiError", !.message = TextMessage(get_message(e)),
                  !.error = e, !.cause = e]

\* an exception of another layer reaching the caller as it is
Propagated(e) == [NoExc EXCEPT !.cls = e.cls, !.message = TextMessage(get_message(e))]

\* ApiError.__init__
ApiError(error) ==
    [NoExc EXCEPT !.cls = "ApiError", !.message = TextMessage(get_message(error)),
                  !.error = error, !.cause = error]

\* a response counts as ok unless it is a server error
OkBelow500(status) == status < 500

\* Response.ok, Response.raise_for_status
Ok(status) == ~(400 <= status /\ status < 600)

\* python truthiness of a decoded value
Truthy(v) ==
    CASE v.t = "None" -> FALSE
      [] v.t = "int" -> v.v # 0
      [] v.t \in {"str", "list", "dict", "bytes"} -> v.v # <<>>
      [] OTHER -> TRUE

\* ResponseError.cause: response.json(), None when it raises
BodyCause(resp) ==
    LET r == JsonLoads(BodyText(resp.body)) IN IF r.ok THEN r.val ELSE NoneVal

\* ResponseError._catch_exception: the HTTPError of raise_for_status
CatchException(resp) ==
    [cls |-> "HTTPError",
     args |-> <<[NoMessage EXCEPT !.form = "raise_for_status",
                                  !.status = resp.status, !.reason = resp.reason]>>]

\* self._cause = self.response.json(), None when it raises; return self._cause
CauseDecoded(e, c) == [obj |-> [e EXCEPT !.body_cause = c], val |-> c, decodes |-> 1]

\* return self._cause
CauseStored(e) == [obj |-> e, val |-> e.body_cause, decodes |-> 0]

\* None is taken for the value of _cause before the first read
CausePropertyNoneSentinel(e, resp) ==
    IF e.body_cause \in {UndefinedVal, NoneVal}
    THEN CauseDecoded(e, BodyCause(resp))
    ELSE CauseStored(e)

\* the property ResponseError.cause, read on the error e of the response resp:
\* the error afterwards, the value returned, the calls of response.json() made
CauseProperty(e, resp) ==
    IF e.body_cause = UndefinedVal
    THEN CauseDecoded(e, BodyCause(resp))
    ELSE CauseStored(e)

\* ResponseError.__init__ up to self.response = response
ErrorBeforeMessage(resp, error) ==
    [cls |-> "ResponseError", message |-> error.args[1], error |-> error, cause |-> error,
     status_code |-> resp.status, reason |-> resp.reason, body_cause |-> UndefinedVal]

\* self.message = f"{base_message}: {self.cause}", r2 being this read of cause
ErrorWithMessage(resp, r1, r2) ==
    [exc |-> [r2.obj EXCEPT !.message =
                 [NoMessage EXCEPT !.form = "HTTP", !.status = resp.status,
                                   !.reason = resp.reason, !.cause = r2.val]],
     decodes |-> r1.decodes + r2.decodes, reads |-> 2, last |-> r2.val]

\* if self.cause: ..., r1 being this read of cause
ErrorAfterTest(resp, r1) ==
    IF Truthy(r1.val)
    THEN ErrorWithMessage(resp, r1, CauseProperty(r1.obj, resp))
    ELSE [exc |-> r1.obj, decodes |-> r1.decodes, reads |-> 1, last |-> r1.val]

\* ResponseError.__init__: the error built, the calls of response.json() and the
\* reads of cause it made, and the value the last of them returned
ResponseErrorInit(resp) ==
    ErrorAfterTest(resp, CauseProperty(ErrorBeforeMessage(resp, CatchException(resp)), resp))

\* ResponseError(response)
ResponseError(resp) == ResponseErrorInit(resp).exc

(***************************************************************************)
(* The generators of parse_stream.  Resuming a generator runs it to its    *)
(* next yield, to its end ("stop") or to the exception it raises.          *)
(***************************************************************************)
Stopped(p, buf, ll) ==
    [kind |-> "stop", val |-> NoneVal, pos |-> p, lines |-> buf, last_line |-> ll,
     it |-> "done"]

\* empty lines are decoded like the others
JsonResumeNoSkip(body, p) ==
    IF p >= Len(body) THEN Stopped(p, <<>>, TRUE)
    ELSE LET r == JsonLoads(body[p + 1]) IN
         [kind |-> IF r.ok THEN "item" ELSE "decode_error", val |-> r.val, pos |-> p + 1,
          lines |-> <<>>, last_line |-> TRUE, it |-> IF r.ok THEN "active" ELSE "done"]

RECURSIVE JsonResumeSurvivesError(_, _)
\* the generator is still alive after json.loads raised
JsonResumeSurvivesError(body, p) ==
    IF p >= Len(body) THEN Stopped(p, <<>>, TRUE)
    ELSE IF body[p + 1] = <<>> THEN JsonResumeSurvivesError(body, p + 1)
    ELSE LET r == JsonLoads(body[p + 1]) IN
         [kind |-> IF r.ok THEN "item" ELSE "decode_error", val |-> r.val, pos |-> p + 1,
          lines |-> <<>>, last_line |-> TRUE, it |-> "active"]

RECURSIVE JsonResume(_, _)
\* JsonHandler.parse_stream from line p + 1 on
JsonResume(body, p) ==
    IF p >= Len(body) THEN Stopped(p, <<>>, TRUE)
    ELSE IF body[p + 1] = <<>> THEN JsonResume(body, p + 1)
    ELSE LET r == JsonLoads(body[p + 1]) IN
         [kind |-> IF r.ok THEN "item" ELSE "decode_error", val |-> r.val, pos |-> p + 1,
          lines |-> <<>>, last_line |-> TRUE, it |-> IF r.ok THEN "active" ELSE "done"]

\* the unit is not stripped
PgnUnitUnstripped(buf) == StrVal(Join(buf, NL))

\* PgnHandler.parse_stream: "\n".join(lines).strip()
PgnUnit(buf) == StrVal(Strip(Join(buf, NL)))

\* the lines left in the buffer at the end of the stream are dropped
PgnFinalDropped(p, buf, ll) == Stopped(p, buf, ll)

\* PgnHandler.parse_stream: a unit is yielded after the loop when lines is not empty
PgnFinal(p, buf, ll) ==
    IF buf # <<>>
    THEN [kind |-> "item", val |-> PgnUnit(buf), pos |-> p, lines |-> buf,
          last_line |-> ll, it |-> "at_final"]
    ELSE Stopped(p, buf, ll)

\* every empty line ends a game
PgnAppendsNonEmptyOnly(ll, line) == line # <<>>

\* no line ends a game: every line is appended
PgnAppendsAlways(ll, line) == TRUE

\* an empty line is never appended: it ends the game
PgnAppendsAfterText(ll, line) == ll /\ line # <<>>

\* PgnHandler.parse_stream: the line is appended if last_line or decoded_line
PgnAppends(ll, line) == ll \/ line # <<>>

RECURSIVE PgnLoop(_, _, _, _)
\* PgnHandler.parse_stream: the for loop from line p + 1 on
PgnLoop(body, p, buf, ll) ==
    IF p >= Len(body) THEN PgnFinal(p, buf, ll)
    ELSE LET line == body[p + 1] IN
         IF PgnAppends(ll, line)
         THEN PgnLoop(body, p + 1, Append(buf, line), line # <<>>)
         ELSE [kind |-> "item", val |-> PgnUnit(buf), pos |-> p + 1, lines |-> buf,
               last_line |-> ll, it |-> "active"]

\* the buffer is not emptied after a yield
PgnResumeKeepsBuffer(body, p, buf, ll, state) ==
    CASE state = "fresh" -> PgnLoop(body, 0, <<>>, TRUE)
      [] state = "active" -> PgnLoop(body, p, buf, FALSE)
      [] OTHER -> Stopped(p, buf, ll)

\* PgnHandler.parse_stream resumed: after the yield in the loop, lines = [] and
\* last_line = decoded_line (the empty line); after the final yield it returns
PgnResume(body, p, buf, ll, state) ==
    CASE state = "fresh" -> PgnLoop(body, 0, <<>>, TRUE)
      [] state = "active" -> PgnLoop(body, p, <<>>, FALSE)
      [] OTHER -> Stopped(p, buf, ll)

RECURSIVE PgnRun(_, _, _)
\* the units PgnHandler.parse_stream yields from the resume g on, after acc
PgnRun(body, g, acc) ==
    IF g.kind # "item" THEN acc
    ELSE PgnRun(body, PgnResume(body, g.pos, g.lines, g.last_line, g.it),
                Append(acc, g.val))

\* list(PGN.parse_stream(response)) for a response with this body
PgnUnits(body) == PgnRun(body, PgnResume(body, 0, <<>>, TRUE, "fresh"), <<>>)

\* TextHandler.parse_stream: yield from response.iter_lines()
TextResume(body, p) ==
    IF p >= Len(body) THEN Stopped(p, <<>>, TRUE)
    ELSE [kind |-> "item", val |-> BytesVal(body[p + 1]), pos |-> p + 1,
          lines |-> <<>>, last_line |-> TRUE, it |-> "active"]

(***************************************************************************)
(* Requestor (session.py) and FormatHandler.handle (formats.py).           *)
(***************************************************************************)
\* BaseClient.__init__: default_fmt=JSON
default_fmt == JSON

Methods == {"GET", "POST"}

\* the lines a response body is made of
LineSet == {<<>>,
            <<"{", "id", ":", "1", "}">>,
            <<"{", "createdAt", ":", "2", "}">>,
            <<"1">>,
            <<"[">>,
            <<"]">>,
            <<SP>>}

PgnLineSet == {<<>>, <<"a">>, <<"b">>, <<SP>>}

SeqsUpTo(S, n) == UNION {[1..k -> S] : k \in 0..n}

Bodies == SeqsUpTo(LineSet, MaxLines)
PgnBodies == SeqsUpTo(PgnLineSet, MaxPgnLines)

\* status code and reason phrase of a response
Statuses == {<<200, "OK">>, <<304, "Not Modified">>, <<404, "Not Found">>,
             <<500, "Internal Server Error">>}

NoCall == [method |-> "", stream |-> FALSE, fmt |-> None, converter |-> "noop"]
NoSent == [method |-> "", headers |-> [Accept |-> ""], stream |-> FALSE]
NoResponse == [status |-> 0, reason |-> "", body |-> <<>>]

\* clients/base.py: API_URL
API_URL == "https://lichess.org/"

\* Requestor.__init__ as BaseClient.__init__ calls it
NewRequestor == [session |-> "session", base_url |-> API_URL, default_fmt |-> default_fmt]

\* no format client built yet; direct: the format client is built on its own and
\* not by Client.__init__
NoClient == [pgn_as_default |-> FALSE, direct |-> FALSE]
NoMethod == [cls |-> "", name |-> "", as_pgn |-> "None"]
\* OAuth.get_code not called yet
NoOAuth == [pc |-> "idle", state |-> <<>>, response |-> NoneVal, returned |-> NoneVal]

\* the threads that call Requestor.request
Threads == {1, 2}
\* what a call of Requestor.request ends with: the value or the iterator it
\* returns (an iterator holds its handler and its converter) or the exception
NoOutcome == [kind |-> "none", val |-> NoneVal, exc |-> NoExc, handler |-> None,
              converter |-> "noop"]
\* a thread that has not called Requestor.request; overlap records that the
\* other thread was inside session.request when this one's call started
NoThread == [pc |-> "idle", call |-> NoCall, fmt |-> None, response |-> NoResponse,
             thrown |-> NoInner, outcome |-> NoOutcome, overlap |-> FALSE]

Init ==
    /\ pc = "idle"
    /\ call = NoCall
    /\ fmt = None
    /\ sent = NoSent
    /\ response = NoResponse
    /\ thrown = NoInner
    /\ exc = NoExc
    /\ result = NoneVal
    /\ it = "none"
    /\ pos = 0
    /\ lines = <<>>
    /\ last_line = TRUE
    /\ yielded = <<>>
    /\ delivered = <<>>
    /\ last = "none"
    /\ extra = 0
    /\ netCalls = 0
    /\ parseCalls = 0
    /\ parseStreamCalls = 0
    /\ decodeCalls = 0
    /\ convCalls = 0
    /\ convArgs = <<>>
    /\ causeDecodes = 0
    /\ causeReads = 0
    /\ lastCause = NoneVal
    /\ convOp = "none"
    /\ convIn = NoneVal
    /\ convOut = ConvFail
    /\ client = NoClient
    /\ apiCall = NoMethod
    /\ gen = "none"
    /\ oauth = NoOAuth
    /\ requestor = NewRequestor
    /\ threads = [t \in Threads |-> NoThread]

IterVars == <<it, pos, lines, last_line, yielded, delivered, last, extra, decodeCalls>>
ErrVars == <<causeDecodes, causeReads, lastCause>>
ConvVars == <<convOp, convIn, convOut>>
ClientVars == <<client, apiCall, gen, oauth, requestor, threads>>

\* the headers sent are those of default_fmt, whatever fmt is given
RequestDefaultHeaders(method, stream, f, converter) ==
    /\ pc = "idle"
    /\ pc' = "in_session"
    /\ call' = [method |-> method, stream |-> stream, fmt |-> f, converter |-> converter]
    /\ fmt' = IF f # None THEN f ELSE default_fmt
    /\ sent' = [method |-> method, headers |-> Headers(default_fmt), stream |-> stream]
    /\ UNCHANGED <<response, thrown, exc, result, IterVars, netCalls, parseCalls,
                   parseStreamCalls, convCalls, convArgs, ErrVars, ConvVars, ClientVars>>

\* Requestor.request, up to the call of session.request
Request(method, stream, f, converter) ==
    /\ pc = "idle"
    /\ pc' = "in_session"
    /\ call' = [method |-> method, stream |-> stream, fmt |-> f, converter |-> converter]
    /\ fmt' = IF f # None THEN f ELSE default_fmt
    /\ sent' = [method |-> method, headers |-> Headers(fmt'), stream |-> stream]
    /\ UNCHANGED <<response, thrown, exc, result, IterVars, netCalls, parseCalls,
                   parseStreamCalls, convCalls, convArgs, ErrVars, ConvVars, ClientVars>>

\* only connection errors are caught
CaughtConnectionOnly(e) == e.cls = "ConnectionError"

\* except requests.RequestException as e: raise exceptions.ApiError(e)
Caught(e) == e.cls \in RequestExceptions

\* a failed call of session.request is made a second time
SessionRaisesRetried(e) ==
    /\ pc = "in_session"
    /\ netCalls' = netCalls + 2
    /\ thrown' = e
    /\ exc' = IF Caught(e) THEN ApiError(e) ELSE Propagated(e)
    /\ pc' = "raised"
    /\ UNCHANGED <<call, fmt, sent, response, result, IterVars, parseCalls,
                   parseStreamCalls, convCalls, convArgs, ErrVars, ConvVars, ClientVars>>

\* Requestor.request: session.request raises
SessionRaises(e) ==
    /\ pc = "in_session"
    /\ netCalls' = netCalls + 1
    /\ thrown' = e
    /\ exc' = IF Caught(e) THEN ApiError(e) ELSE Propagated(e)
    /\ pc' = "raised"
    /\ UNCHANGED <<call, fmt, sent, response, result, IterVars, parseCalls,
                   parseStreamCalls, convCalls, convArgs, ErrVars, ConvVars, ClientVars>>

\* if not response.ok
Rejected(resp) == ~Ok(resp.status)

\* the body is decoded before the status is looked at
ResponseNotOkDecodesFirst(st, body) ==
    /\ pc = "in_session"
    /\ netCalls' = netCalls + 1
    /\ response' = [status |-> st[1], reason |-> st[2], body |-> body]
    /\ Rejected(response')
    /\ parseCalls' = IF call.stream THEN parseCalls ELSE parseCalls + 1
    /\ parseStreamCalls' = IF call.stream THEN parseStreamCalls + 1 ELSE parseStreamCalls
    /\ \E e \in {ResponseErrorInit(response')} :
       /\ exc' = e.exc
       /\ causeDecodes' = e.decodes
       /\ causeReads' = e.reads
       /\ lastCause' = e.last
    /\ pc' = "raised"
    /\ UNCHANGED <<call, fmt, sent, thrown, result, IterVars, convCalls, convArgs,
                   ConvVars, ClientVars>>

\* Requestor.request: session.request returns a response that is not ok
ResponseNotOk(st, body) ==
    /\ pc = "in_session"
    /\ netCalls' = netCalls + 1
    /\ response' = [status |-> st[1], reason |-> st[2], body |-> body]
    /\ Rejected(response')
    /\ \E e \in {ResponseErrorInit(response')} :
       /\ exc' = e.exc
       /\ causeDecodes' = e.decodes
       /\ causeReads' = e.reads
       /\ lastCause' = e.last
    /\ pc' = "raised"
    /\ UNCHANGED <<call, fmt, sent, thrown, result, IterVars, parseCalls,
                   parseStreamCalls, convCalls, convArgs, ConvVars, ClientVars>>

\* the parsed value is returned without the converter being applied
HandleBufferedUnconverted(h, converter, body) ==
    LET p == Parse(h, body) IN
    [parsed |-> p.ok, converted |-> p.ok, val |-> p.val, convCalls |-> 0,
     convArgs |-> <<>>,
     exc |-> IF ~p.ok THEN Propagated([cls |-> "JSONDecodeError", args |-> <<>>])
             ELSE NoExc]

\* FormatHandler.handle, is_stream false: converter(self.parse(response))
HandleBuffered(h, converter, body) ==
    LET p == Parse(h, body)
        c == Convert(converter, p.val)
    IN  [parsed |-> p.ok,
         converted |-> p.ok /\ c.ok,
         val |-> IF p.ok /\ c.ok THEN c.val ELSE NoneVal,
         convCalls |-> IF p.ok THEN 1 ELSE 0,
         convArgs |-> IF p.ok THEN <<p.val>> ELSE <<>>,
         exc |-> IF ~p.ok THEN Propagated([cls |-> "JSONDecodeError", args |-> <<>>])
                 ELSE IF ~c.ok THEN Propagated([cls |-> "TypeError", args |-> <<>>])
                 ELSE NoExc]

\* Requestor.request: the response is ok and stream is false
ResponseBuffered(st, body) ==
    /\ pc = "in_session"
    /\ ~call.stream
    /\ netCalls' = netCalls + 1
    /\ response' = [status |-> st[1], reason |-> st[2], body |-> body]
    /\ ~Rejected(response')
    /\ LET h == HandleBuffered(fmt, call.converter, body) IN
       /\ parseCalls' = parseCalls + 1
       /\ convCalls' = convCalls + h.convCalls
       /\ convArgs' = convArgs \o h.convArgs
       /\ result' = h.val
       /\ exc' = h.exc
       /\ pc' = IF h.converted THEN "returned" ELSE "raised"
    /\ UNCHANGED <<call, fmt, sent, thrown, IterVars, parseStreamCalls, ErrVars, ConvVars, ClientVars>>

\* Requestor.request: the response is ok and stream is true;
\* FormatHandler.handle returns map(converter, iter(self.parse_stream(response)))
ResponseStream(st, body) ==
    /\ pc = "in_session"
    /\ call.stream
    /\ netCalls' = netCalls + 1
    /\ response' = [status |-> st[1], reason |-> st[2], body |-> body]
    /\ ~Rejected(response')
    /\ parseStreamCalls' = parseStreamCalls + 1
    /\ it' = "fresh"
    /\ pc' = "returned"
    /\ UNCHANGED <<call, fmt, sent, thrown, exc, result, pos, lines, last_line, yielded,
                   delivered, last, extra, decodeCalls, parseCalls, convCalls, convArgs,
                   ErrVars, ConvVars, ClientVars>>

\* next() on the map object: the generator g is resumed, the converter applied
Advance(g) ==
    LET c == Convert(call.converter, g.val) IN
    /\ pc = "returned"
    /\ it \in {"fresh", "active", "at_final"} \/ (it = "done" /\ extra < MaxExtra)
    /\ it' = g.it
    /\ pos' = g.pos
    /\ lines' = g.lines
    /\ last_line' = g.last_line
    /\ extra' = IF it = "done" THEN extra + 1 ELSE extra
    /\ yielded' = IF g.kind = "item" THEN Append(yielded, g.val) ELSE yielded
    /\ convCalls' = IF g.kind = "item" THEN convCalls + 1 ELSE convCalls
    /\ convArgs' = IF g.kind = "item" THEN Append(convArgs, g.val) ELSE convArgs
    /\ delivered' = IF g.kind = "item" /\ c.ok THEN Append(delivered, c.val) ELSE delivered
    /\ last' = IF g.kind = "item" /\ ~c.ok THEN "conv_error" ELSE g.kind
    /\ exc' = CASE g.kind = "decode_error" ->
                      Propagated([cls |-> "JSONDecodeError", args |-> <<>>])
                [] g.kind = "item" /\ ~c.ok -> Propagated([cls |-> "TypeError", args |-> <<>>])
                [] OTHER -> exc
    /\ UNCHANGED <<pc, call, fmt, sent, response, thrown, result, netCalls, parseCalls,
                   parseStreamCalls, ErrVars, ConvVars, ClientVars>>

\* lines of body[1..p] that are not empty
NonEmptyCount(body, p) == Cardinality({i \in 1..p : body[i] # <<>>})

\* the first next() decodes every line of the body
AdvanceJsonEager ==
    /\ fmt \in JsonHandlers
    /\ LET g == IF it = "done" THEN Stopped(pos, lines, last_line)
                ELSE JsonResume(response.body, pos)
       IN  /\ Advance(g)
           /\ decodeCalls' = IF it = "fresh"
                             THEN NonEmptyCount(response.body, Len(response.body))
                             ELSE decodeCalls

\* next() on a sequence of JsonHandler.parse_stream
AdvanceJson ==
    /\ fmt \in JsonHandlers
    /\ LET g == IF it = "done" THEN Stopped(pos, lines, last_line)
                ELSE JsonResume(response.body, pos)
       IN  /\ Advance(g)
           /\ decodeCalls' = IF g.kind \in {"item", "decode_error"}
                             THEN decodeCalls + 1 ELSE decodeCalls

\* next() on a sequence of PgnHandler.parse_stream
AdvancePgn ==
    /\ fmt = PGN
    /\ Advance(PgnResume(response.body, pos, lines, last_line, it))
    /\ UNCHANGED decodeCalls

\* a sequence that has ended starts again at the first line
AdvanceTextRestarts ==
    /\ fmt = TEXT
    /\ Advance(TextResume(response.body, IF it = "done" THEN 0 ELSE pos))
    /\ UNCHANGED decodeCalls

\* next() on a sequence of TextHandler.parse_stream
AdvanceText ==
    /\ fmt = TEXT
    /\ Advance(IF it = "done" THEN Stopped(pos, lines, last_line)
               ELSE TextResume(response.body, pos))
    /\ UNCHANGED decodeCalls

Next ==
    \/ \E m \in Methods, s \in BOOLEAN, f \in Handlers \cup {None}, c \in Converters :
          Request(m, s, f, c)
    \/ \E e \in Raisable : SessionRaises(e)
    \/ \E st \in Statuses, body \in Bodies : ResponseNotOk(st, body)
    \/ \E st \in Statuses, body \in Bodies : ResponseBuffered(st, body)
    \/ \E st \in Statuses, body \in Bodies : ResponseStream(st, body)
    \/ AdvanceJson
    \/ AdvancePgn
    \/ AdvanceText

Spec == Init /\ [][Next]_vars

(***************************************************************************)
(* PgnHandler.parse_stream on its own: the state after                     *)
(* PGN.parse_stream(response) was called on a response with any of the     *)
(* bodies of PgnBodies.                                                    *)
(***************************************************************************)
InitPgn ==
    /\ pc = "returned"
    /\ call = [method |-> "GET", stream |-> TRUE, fmt |-> PGN, converter |-> "noop"]
    /\ fmt = PGN
    /\ sent = [method |-> "GET", headers |-> Headers(PGN), stream |-> TRUE]
    /\ \E body \in PgnBodies : response = [status |-> 200, reason |-> "OK", body |-> body]
    /\ thrown = NoInner
    /\ exc = NoExc
    /\ result = NoneVal
    /\ it = "fresh"
    /\ pos = 0
    /\ lines = <<>>
    /\ last_line = TRUE
    /\ yielded = <<>>
    /\ delivered = <<>>
    /\ last = "none"
    /\ extra = 0
    /\ netCalls = 1
    /\ parseCalls = 0
    /\ parseStreamCalls = 1
    /\ decodeCalls = 0
    /\ convCalls = 0
    /\ convArgs = <<>>
    /\ causeDecodes = 0
    /\ causeReads = 0
    /\ lastCause = NoneVal
    /\ convOp = "none"
    /\ convIn = NoneVal
    /\ convOut = ConvFail
    /\ client = NoClient
    /\ apiCall = NoMethod
    /\ gen = "none"
    /\ oauth = NoOAuth
    /\ requestor = NewRequestor
    /\ threads = [t \in Threads |-> NoThread]

NextPgn == AdvancePgn

SpecPgn == InitPgn /\ [][NextPgn]_vars

(***************************************************************************)
(* The lifetime of a ResponseError: Requestor.request raises it, then the  *)
(* caller reads its property cause any number of times.                    *)
(***************************************************************************)
\* bodies of an error response: those of Bodies and the JSON text null
ErrBodies == Bodies \cup {<< <<"null">> >>}

InitErr ==
    /\ pc = "in_session"
    /\ \E m \in Methods :
          /\ call = [method |-> m, stream |-> FALSE, fmt |-> None, converter |-> "noop"]
          /\ sent = [method |-> m, headers |-> Headers(default_fmt), stream |-> FALSE]
    /\ fmt = default_fmt
    /\ response = NoResponse
    /\ thrown = NoInner
    /\ exc = NoExc
    /\ result = NoneVal
    /\ it = "none"
    /\ pos = 0
    /\ lines = <<>>
    /\ last_line = TRUE
    /\ yielded = <<>>
    /\ delivered = <<>>
    /\ last = "none"
    /\ extra = 0
    /\ netCalls = 0
    /\ parseCalls = 0
    /\ parseStreamCalls = 0
    /\ decodeCalls = 0
    /\ convCalls = 0
    /\ convArgs = <<>>
    /\ causeDecodes = 0
    /\ causeReads = 0
    /\ lastCause = NoneVal
    /\ convOp = "none"
    /\ convIn = NoneVal
    /\ convOut = ConvFail
    /\ client = NoClient
    /\ apiCall = NoMethod
    /\ gen = "none"
    /\ oauth = NoOAuth
    /\ requestor = NewRequestor
    /\ threads = [t \in Threads |-> NoThread]

\* the caller evaluates e.cause on the ResponseError it caught
ReadCause ==
    /\ pc = "raised"
    /\ exc.cls = "ResponseError"
    /\ causeReads < MaxReads
    /\ LET r == CauseProperty(exc, response) IN
       /\ exc' = r.obj
       /\ causeDecodes' = causeDecodes + r.decodes
       /\ lastCause' = r.val
    /\ causeReads' = causeReads + 1
    /\ UNCHANGED <<pc, call, fmt, sent, response, thrown, result, IterVars, netCalls,
                   parseCalls, parseStreamCalls, convCalls, convArgs, ConvVars, ClientVars>>

NextErr ==
    \/ \E st \in Statuses, body \in ErrBodies : ResponseNotOk(st, body)
    \/ ReadCause

SpecErr == InitErr /\ [][NextErr]_vars

(***************************************************************************)
(* The converters on their own: Model.convert_one and Model.convert of     *)
(* models.Game, and the converter of utils.inner for the keys of           *)
(* models.Activity.interval, applied to any of the records of Records.     *)
(***************************************************************************)
ConvKeys == {"id", "createdAt", "lastMoveAt", "start", "end"}
ConvVals == {IntVal(n) : n \in 0..MaxMillis} \cup {StrVal(<<"id">>)}
Records == {DictVal(f) : f \in UNION {[K -> ConvVals] : K \in SUBSET ConvKeys}}

InitConv ==
    /\ pc = "idle"
    /\ call = NoCall
    /\ fmt = None
    /\ sent = NoSent
    /\ response = NoResponse
    /\ thrown = NoInner
    /\ exc = NoExc
    /\ result = NoneVal
    /\ it = "none"
    /\ pos = 0
    /\ lines = <<>>
    /\ last_line = TRUE
    /\ yielded = <<>>
    /\ delivered = <<>>
    /\ last = "none"
    /\ extra = 0
    /\ netCalls = 0
    /\ parseCalls = 0
    /\ parseStreamCalls = 0
    /\ decodeCalls = 0
    /\ convCalls = 0
    /\ convArgs = <<>>
    /\ causeDecodes = 0
    /\ causeReads = 0
    /\ lastCause = NoneVal
    /\ convOp = "none"
    /\ convIn \in Records
    /\ convOut = ConvFail
    /\ client = NoClient
    /\ apiCall = NoMethod
    /\ gen = "none"
    /\ oauth = NoOAuth
    /\ requestor = NewRequestor
    /\ threads = [t \in Threads |-> NoThread]

\* the state a converter applied to convIn leaves
Applied(op, out) ==
    /\ convOp = "none"
    /\ convOp' = op
    /\ convOut' = out
    /\ UNCHANGED <<pc, call, fmt, sent, response, thrown, exc, result, IterVars, netCalls,
                   parseCalls, parseStreamCalls, convCalls, convArgs, ErrVars, convIn, ClientVars>>

\* models.Game.convert_one(record)
ApplyConvertOne == Applied("convert_one", ConvertOne(convIn))

\* models.Game.convert(record)
ApplyConvert == Applied("convert", ModelConvert(convIn))

\* utils.inner(utils.datetime_from_millis, "start", "end")(record)
ApplyInner == Applied("inner", InnerConvert(IntervalKeys, convIn))

NextConv == ApplyConvertOne \/ ApplyConvert \/ ApplyInner

SpecConv == InitConv /\ [][NextConv]_vars

(***************************************************************************)
(* The methods of the format clients a Client holds (clients/games.py,     *)
(* clients/tournaments.py, clients/tv.py): one method is called, and the   *)
(* request it makes runs as in Spec.  A method written with yield from is  *)
(* a generator function: calling it returns a generator and its body runs  *)
(* from the first next() on.                                               *)
(***************************************************************************)
\* the as_pgn argument: None, True or False
AsPgnValues == {"None", "True", "False"}

\* pgn_as_default wins over an as_pgn of False
UsePgnOrDefault(as_pgn, pgn_as_default) == as_pgn = "True" \/ pgn_as_default

\* FmtClient._use_pgn
UsePgn(as_pgn, pgn_as_default) ==
    IF as_pgn # "None" THEN as_pgn = "True" ELSE pgn_as_default

\* self.pgn_as_default of the format client of class cls: the argument of
\* FmtClient.__init__ when the client is built on its own; in Client.__init__
\* Games and Tournaments are handed the argument of Client and
\* TV(session, base_url) is left with the default, False
PgnAsDefault(c, cls) ==
    IF c.direct \/ cls \in {"Games", "Tournaments"} THEN c.pgn_as_default ELSE FALSE

\* the subclasses of FmtClient
FmtClients == {"Games", "Tournaments", "TV"}

\* methods that take as_pgn, and Studies.export, which always asks for PGN
ClientMethods == {[cls |-> "Games", name |-> "export"],
                  [cls |-> "Games", name |-> "export_by_player"],
                  [cls |-> "Tournaments", name |-> "export_arena_games"],
                  [cls |-> "TV", name |-> "get_best_ongoing"],
                  [cls |-> "Studies", name |-> "export"]}

\* those of them whose body holds a yield
GeneratorMethods == {[cls |-> "Games", name |-> "export_by_player"],
                     [cls |-> "Tournaments", name |-> "export_arena_games"],
                     [cls |-> "Studies", name |-> "export"]}

IsGenerator(m) == [cls |-> m.cls, name |-> m.name] \in GeneratorMethods

\* the values as_pgn takes in a call of m
AsPgnArgs(m) == IF m.cls \in FmtClients THEN AsPgnValues ELSE {"None"}

\* the arguments the method m of the client c passes to Requestor.get
\* (NDJSON_LIST is NDJSON, models.TV has the conversions of models.Game)
MethodArgs(m, c) ==
    CASE m.cls = "Studies" ->
            [stream |-> TRUE, fmt |-> PGN, converter |-> "noop"]
      [] m.cls = "Games" /\ m.name = "export" ->
            IF UsePgn(m.as_pgn, PgnAsDefault(c, m.cls))
            THEN [stream |-> FALSE, fmt |-> PGN, converter |-> "noop"]
            ELSE [stream |-> FALSE, fmt |-> None, converter |-> "Game"]
      [] IsGenerator(m) ->
            IF UsePgn(m.as_pgn, PgnAsDefault(c, m.cls))
            THEN [stream |-> TRUE, fmt |-> PGN, converter |-> "noop"]
            ELSE [stream |-> TRUE, fmt |-> NDJSON, converter |-> "Game"]
      [] OTHER ->
            IF UsePgn(m.as_pgn, PgnAsDefault(c, m.cls))
            THEN [stream |-> FALSE, fmt |-> PGN, converter |-> "noop"]
            ELSE [stream |-> FALSE, fmt |-> NDJSON, converter |-> "Game"]

InitClient ==
    /\ pc = "idle"
    /\ call = NoCall
    /\ fmt = None
    /\ sent = NoSent
    /\ response = NoResponse
    /\ thrown = NoInner
    /\ exc = NoExc
    /\ result = NoneVal
    /\ it = "none"
    /\ pos = 0
    /\ lines = <<>>
    /\ last_line = TRUE
    /\ yielded = <<>>
    /\ delivered = <<>>
    /\ last = "none"
    /\ extra = 0
    /\ netCalls = 0
    /\ parseCalls = 0
    /\ parseStreamCalls = 0
    /\ decodeCalls = 0
    /\ convCalls = 0
    /\ convArgs = <<>>
    /\ causeDecodes = 0
    /\ causeReads = 0
    /\ lastCause = NoneVal
    /\ convOp = "none"
    /\ convIn = NoneVal
    /\ convOut = ConvFail
    /\ client \in [pgn_as_default : BOOLEAN, direct : BOOLEAN]
    /\ apiCall = NoMethod
    /\ gen = "none"
    /\ oauth = NoOAuth
    /\ requestor = NewRequestor
    /\ threads = [t \in Threads |-> NoThread]

\* client.<cls>.<name>(..., as_pgn=as_pgn) is called
CallMethod(m, as_pgn) ==
    /\ gen = "none"
    /\ apiCall' = [cls |-> m.cls, name |-> m.name, as_pgn |-> as_pgn]
    /\ gen' = IF IsGenerator(m) THEN "created" ELSE "not_generator"
    /\ UNCHANGED <<pc, call, fmt, sent, response, thrown, exc, result, IterVars, netCalls,
                   parseCalls, parseStreamCalls, convCalls, convArgs, ErrVars, ConvVars,
                   client, oauth, requestor, threads>>

\* the first next() on the generator the method returned
FirstAdvance ==
    /\ gen = "created"
    /\ gen' = "started"
    /\ UNCHANGED <<pc, call, fmt, sent, response, thrown, exc, result, IterVars, netCalls,
                   parseCalls, parseStreamCalls, convCalls, convArgs, ErrVars, ConvVars,
                   client, apiCall, oauth, requestor, threads>>

\* the body of every method runs when the method is called
RunningAtCall == gen \in {"not_generator", "created", "started"}

\* the body of the method is running: from the call on for a function, from the
\* first next() on for a generator function
Running == gen \in {"not_generator", "started"}

\* self._r.get(path, params=params, ...) in the body of the method
MethodRequest ==
    /\ Running
    /\ Request("GET", MethodArgs(apiCall, client).stream, MethodArgs(apiCall, client).fmt,
               MethodArgs(apiCall, client).converter)

NextClient ==
    \/ \E m \in ClientMethods : \E a \in AsPgnArgs(m) : CallMethod(m, a)
    \/ FirstAdvance
    \/ MethodRequest
    \/ \E e \in Raisable : SessionRaises(e)
    \/ \E st \in Statuses, body \in Bodies : ResponseNotOk(st, body)
    \/ \E st \in Statuses, body \in Bodies : ResponseBuffered(st, body)
    \/ \E st \in Statuses, body \in Bodies : ResponseStream(st, body)
    \/ AdvanceJson
    \/ AdvancePgn

SpecClient == InitClient /\ [][NextClient]_vars

(***************************************************************************)
(* OAuth.get_code (clients/oauth.py): a state is generated and sent, the   *)
(* decoded response comes back from Requestor.get, and the state it        *)
(* carries is compared with the one that was sent.                         *)
(***************************************************************************)
\* values of str(uuid.uuid4())
OAuthStates == {<<"uuid1">>, <<"uuid2">>, <<"uuid3">>}

\* values the server may send under "state": a uuid, "" or null
ReturnedStates == {StrVal(u) : u \in OAuthStates} \cup {StrVal(<<>>), NoneVal}

\* the decoded responses: objects over the keys state, code and error
OAuthResponses ==
    {DictVal(st @@ c @@ e) :
        st \in {<<>>} \cup {"state" :> v : v \in ReturnedStates},
        c \in {<<>>, "code" :> StrVal(<<"liu_code">>)},
        e \in {<<>>, "error" :> StrVal(<<"access_denied">>)}}

\* dict.get(key)
DictGet(d, key) == IF key \in DOMAIN d.v THEN d.v[key] ELSE NoneVal

\* the record get_code returns for a state it did not send
UnexpectedState ==
    DictVal(("error" :> StrVal(<<"unexpected_state">>))
            @@ ("error_description" :> StrVal(<<"potential cross-site request forgery">>))
            @@ ("state" :> StrVal(<<"returned_state">>)))

\* get_code from the walrus on: what is returned for the state sent and the
\* response received
GetCodeResult(state, resp) ==
    IF Truthy(DictGet(resp, "state"))
    THEN IF StrVal(state) = DictGet(resp, "state") THEN resp ELSE UnexpectedState
    ELSE resp

InitOAuth ==
    /\ pc = "idle"
    /\ call = NoCall
    /\ fmt = None
    /\ sent = NoSent
    /\ response = NoResponse
    /\ thrown = NoInner
    /\ exc = NoExc
    /\ result = NoneVal
    /\ it = "none"
    /\ pos = 0
    /\ lines = <<>>
    /\ last_line = TRUE
    /\ yielded = <<>>
    /\ delivered = <<>>
    /\ last = "none"
    /\ extra = 0
    /\ netCalls = 0
    /\ parseCalls = 0
    /\ parseStreamCalls = 0
    /\ decodeCalls = 0
    /\ convCalls = 0
    /\ convArgs = <<>>
    /\ causeDecodes = 0
    /\ causeReads = 0
    /\ lastCause = NoneVal
    /\ convOp = "none"
    /\ convIn = NoneVal
    /\ convOut = ConvFail
    /\ client = NoClient
    /\ apiCall = NoMethod
    /\ gen = "none"
    /\ oauth = NoOAuth
    /\ requestor = NewRequestor
    /\ threads = [t \in Threads |-> NoThread]

OAuthUnchanged ==
    UNCHANGED <<pc, call, fmt, sent, response, thrown, exc, result, IterVars, netCalls,
                parseCalls, parseStreamCalls, convCalls, convArgs, ErrVars, ConvVars,
                client, apiCall, gen, requestor, threads>>

\* get_code up to self._r.get(path=path, params=params): the state is generated
\* and sent
GetCodeRequest(state) ==
    /\ oauth.pc = "idle"
    /\ oauth' = [oauth EXCEPT !.pc = "requested", !.state = state]
    /\ OAuthUnchanged

\* self._r.get returns the decoded response
GetCodeResponse(resp) ==
    /\ oauth.pc = "requested"
    /\ oauth' = [oauth EXCEPT !.pc = "responded", !.response = resp]
    /\ OAuthUnchanged

\* the check of the state and the return
GetCodeReturn ==
    /\ oauth.pc = "responded"
    /\ oauth' = [oauth EXCEPT !.pc = "returned",
                              !.returned = GetCodeResult(oauth.state, oauth.response)]
    /\ OAuthUnchanged

NextOAuth ==
    \/ \E state \in OAuthStates : GetCodeRequest(state)
    \/ \E resp \in OAuthResponses : GetCodeResponse(resp)
    \/ GetCodeReturn

SpecOAuth == InitOAuth /\ [][NextOAuth]_vars

(***************************************************************************)
(* Two threads call Requestor.request on one Requestor (session.py).  The  *)
(* Requestor's attributes are shared; method, stream, fmt, converter and   *)
(* response are locals of each call.                                       *)
(***************************************************************************)
\* the fmt arguments of the calls
ThreadFormats == {None, PGN, NDJSON}

\* the response bodies the calls receive
ThreadBodies == {<<>>,
                 << <<"{", "id", ":", "1", "}">> >>,
                 << <<"{", "createdAt", ":", "2", "}">> >>,
                 << <<"[">> >>}

\* the statuses the calls receive
ThreadStatuses == {<<200, "OK">>, <<404, "Not Found">>}

InitThreads ==
    /\ pc = "idle"
    /\ call = NoCall
    /\ fmt = None
    /\ sent = NoSent
    /\ response = NoResponse
    /\ thrown = NoInner
    /\ exc = NoExc
    /\ result = NoneVal
    /\ it = "none"
    /\ pos = 0
    /\ lines = <<>>
    /\ last_line = TRUE
    /\ yielded = <<>>
    /\ delivered = <<>>
    /\ last = "none"
    /\ extra = 0
    /\ netCalls = 0
    /\ parseCalls = 0
    /\ parseStreamCalls = 0
    /\ decodeCalls = 0
    /\ convCalls = 0
    /\ convArgs = <<>>
    /\ causeDecodes = 0
    /\ causeReads = 0
    /\ lastCause = NoneVal
    /\ convOp = "none"
    /\ convIn = NoneVal
    /\ convOut = ConvFail
    /\ client = NoClient
    /\ apiCall = NoMethod
    /\ gen = "none"
    /\ oauth = NoOAuth
    /\ requestor = NewRequestor
    /\ threads = [t \in Threads |-> NoThread]

ThreadsUnchanged ==
    UNCHANGED <<pc, call, fmt, sent, response, thrown, exc, result, IterVars, netCalls,
                parseCalls, parseStreamCalls, convCalls, convArgs, ErrVars, ConvVars,
                client, apiCall, gen, oauth>>

\* a lock is held around session.request
ThreadRequestLocked(t, stream, f, converter) ==
    /\ threads[t].pc = "idle"
    /\ \A u \in Threads \ {t} : threads[u].pc # "in_session"
    /\ threads' = [threads EXCEPT ![t] =
                      [@ EXCEPT !.pc = "in_session",
                                !.call = [method |-> "GET", stream |-> stream, fmt |-> f,
                                          converter |-> converter],
                                !.fmt = IF f # None THEN f ELSE requestor.default_fmt,
                                !.overlap = FALSE]]
    /\ UNCHANGED requestor
    /\ ThreadsUnchanged

\* the handler of the call is kept on the Requestor
ThreadRequestStoresFmt(t, stream, f, converter) ==
    /\ threads[t].pc = "idle"
    /\ threads' = [threads EXCEPT ![t] =
                      [@ EXCEPT !.pc = "in_session",
                                !.call = [method |-> "GET", stream |-> stream, fmt |-> f,
                                          converter |-> converter],
                                !.fmt = IF f # None THEN f ELSE requestor.default_fmt,
                                !.overlap = \E u \in Threads \ {t} :
                                                threads[u].pc = "in_session"]]
    /\ requestor' = [requestor EXCEPT !.default_fmt = threads'[t].fmt]
    /\ ThreadsUnchanged

\* Requestor.request in thread t, up to the call of session.request:
\* fmt = fmt or self.default_fmt
ThreadRequest(t, stream, f, converter) ==
    /\ threads[t].pc = "idle"
    /\ threads' = [threads EXCEPT ![t] =
                      [@ EXCEPT !.pc = "in_session",
                                !.call = [method |-> "GET", stream |-> stream, fmt |-> f,
                                          converter |-> converter],
                                !.fmt = IF f # None THEN f ELSE requestor.default_fmt,
                                !.overlap = \E u \in Threads \ {t} :
                                                threads[u].pc = "in_session"]]
    /\ UNCHANGED requestor
    /\ ThreadsUnchanged

\* session.request raises in thread t
ThreadRaises(t, e) ==
    /\ threads[t].pc = "in_session"
    /\ threads' = [threads EXCEPT ![t] =
                      [@ EXCEPT !.pc = "raised",
                                !.thrown = e,
                                !.outcome = [NoOutcome EXCEPT
                                    !.kind = "raised",
                                    !.exc = IF Caught(e) THEN ApiError(e)
                                            ELSE Propagated(e)]]]
    /\ UNCHANGED requestor
    /\ ThreadsUnchanged

\* what Requestor.request does with the response resp: ResponseError, or
\* fmt.handle(response, is_stream=stream, converter=converter)
RequestOutcome(h, stream, converter, resp) ==
    IF Rejected(resp)
    THEN [NoOutcome EXCEPT !.kind = "raised", !.exc = ResponseError(resp)]
    ELSE IF stream
    THEN [NoOutcome EXCEPT !.kind = "iterator", !.handler = h, !.converter = converter]
    ELSE IF HandleBuffered(h, converter, resp.body).converted
    THEN [NoOutcome EXCEPT !.kind = "returned",
                           !.val = HandleBuffered(h, converter, resp.body).val]
    ELSE [NoOutcome EXCEPT !.kind = "raised",
                           !.exc = HandleBuffered(h, converter, resp.body).exc]

\* session.request returns a response in thread t
ThreadResponds(t, st, body) ==
    /\ threads[t].pc = "in_session"
    /\ \E resp \in {[status |-> st[1], reason |-> st[2], body |-> body]} :
       \E o \in {RequestOutcome(threads[t].fmt, threads[t].call.stream,
                                threads[t].call.converter, resp)} :
          threads' = [threads EXCEPT ![t] =
                         [@ EXCEPT !.pc = IF o.kind = "raised" THEN "raised" ELSE "returned",
                                   !.response = resp,
                                   !.outcome = o]]
    /\ UNCHANGED requestor
    /\ ThreadsUnchanged

NextThreads ==
    \/ \E t \in Threads, stream \in BOOLEAN, f \in ThreadFormats, converter \in Converters :
          ThreadRequest(t, stream, f, converter)
    \/ \E t \in Threads, e \in Raisable : ThreadRaises(t, e)
    \/ \E t \in Threads, st \in ThreadStatuses, body \in ThreadBodies :
          ThreadResponds(t, st, body)

SpecThreads == InitThreads /\ [][NextThreads]_vars

(***************************************************************************)
(* Properties.                                                             *)
(***************************************************************************)
Received == response.status # 0
Body == response.body
Streaming == pc = "returned" /\ call.stream
Finished == it \in {"at_final", "done"}
NonEmptyLines(body) == SelectSeq(body, LAMBDA l : l # <<>>)

\* C1: whatever the method, the handler and the stream flag, a response whose
\* status is 400 or more makes Requestor.request raise a ResponseError whose
\* status_code and reason are the status and the reason phrase of the response.
C1_ErrorStatusRaisesResponseError ==
    (Received /\ response.status >= 400) =>
        /\ pc = "raised"
        /\ exc.cls = "ResponseError"
        /\ exc.status_code = response.status
        /\ exc.reason = response.reason

C1_Witness ==
    /\ call.method = "POST" /\ call.stream /\ fmt = PGN
    /\ response.status = 404 /\ response.reason = "Not Found"
    /\ exc.cls = "ResponseError" /\ exc.status_code = 404

\* C2: when the status of the response is 400 or more, request raises and never
\* returns, with stream true or false, and parse, parse_stream and the converter
\* are never invoked: no value and no iterator exist, at that state or later.
C2_NoDecodingOfErrorResponse ==
    (Received /\ response.status >= 400) =>
        /\ pc = "raised"
        /\ parseCalls = 0 /\ parseStreamCalls = 0 /\ convCalls = 0 /\ decodeCalls = 0
        /\ it = "none" /\ result = NoneVal /\ yielded = <<>> /\ delivered = <<>>

C2_Witness ==
    /\ call.stream /\ call.converter = "Game" /\ fmt = NDJSON
    /\ response.status = 500 /\ Len(Body) = 2
    /\ pc = "raised" /\ parseStreamCalls = 0

\* C3 as stated: whatever exception session.request raises, the caller gets an
\* ApiError whose error and cause are that exception.
C3_Original_AnyExceptionWrapped ==
    (thrown # NoInner) =>
        /\ pc = "raised"
        /\ exc.cls = "ApiError" /\ exc.error = thrown /\ exc.cause = thrown

\* C3, amended: a requests.RequestException raised by session.request reaches the
\* caller as an ApiError whose error and cause are that exception; any other
\* exception reaches the caller as it is, not wrapped.
C3_RequestExceptionWrapped ==
    (thrown # NoInner) =>
        /\ pc = "raised" /\ ~Received
        /\ thrown.cls \in RequestExceptions =>
              /\ exc.cls = "ApiError" /\ exc.error = thrown /\ exc.cause = thrown
              /\ exc.message = TextMessage(get_message(thrown))
        /\ thrown.cls \notin RequestExceptions =>
              /\ exc.cls = thrown.cls /\ exc.error = NoInner /\ exc.cause = NoInner

C3_Witness ==
    /\ thrown.cls = "Timeout" /\ exc.cls = "ApiError" /\ exc.error.cls = "Timeout"
    /\ pc = "raised"

\* C4: on an ok response with stream false, parse of the chosen handler is invoked
\* once on the whole body and parse_stream never; when request returns, the
\* converter was invoked once and the value returned is converter(parse(body));
\* request raises only when parse or the converter raised.
C4_BufferedReturnsConvertedParse ==
    (Received /\ response.status < 400 /\ ~call.stream) =>
        LET p == Parse(IF call.fmt = None THEN default_fmt ELSE call.fmt, Body)
            c == Convert(call.converter, p.val)
        IN  /\ parseCalls = 1 /\ parseStreamCalls = 0 /\ it = "none"
            /\ pc \in {"returned", "raised"}
            /\ pc = "returned" => (p.ok /\ c.ok /\ convCalls = 1 /\ result = c.val)
            /\ pc = "raised" => (~p.ok \/ ~c.ok) /\ convCalls = (IF p.ok THEN 1 ELSE 0)

C4_Witness ==
    /\ pc = "returned" /\ ~call.stream /\ fmt = NDJSON /\ call.converter = "Game"
    /\ parseCalls = 1 /\ convCalls = 1
    /\ result = ListVal(<<DictVal("id" :> IntVal(1)),
                          DictVal("createdAt" :> DatetimeVal(2))>>)

\* C5: for a sequence streamed over a JSON handler, nothing is decoded or
\* converted before the first advance; after k elements were pulled exactly k
\* lines were decoded and the converter was called k times (a line that fails to
\* decode is the one further decode); the lines after the line of the element
\* pulled last are not decoded.
C5_StreamingIsLazy ==
    (Streaming /\ fmt \in JsonHandlers) =>
        LET k == Len(yielded) IN
        /\ it = "fresh" => (k = 0 /\ decodeCalls = 0 /\ convCalls = 0 /\ pos = 0)
        /\ convCalls = k
        /\ decodeCalls = k + (IF exc.cls = "JSONDecodeError" THEN 1 ELSE 0)
        /\ decodeCalls = NonEmptyCount(Body, pos)
        /\ it = "active" => Body[pos] # <<>>

C5_Witness ==
    /\ Streaming /\ fmt = NDJSON /\ it = "active"
    /\ Len(delivered) = 1 /\ decodeCalls = 1 /\ convCalls = 1
    /\ pos < Len(Body) /\ Body[Len(Body)] # <<>>

\* C6: streaming an NDJSON body (every non-empty line a JSON document the
\* converter accepts) delivers one record per non-empty line, in the order of the
\* lines, each the converter applied to the decode of that line alone; empty
\* lines deliver nothing, so the finished sequence has as many records as the
\* body has non-empty lines.
C6_NdjsonOneRecordPerLine ==
    LET ne == NonEmptyLines(Body)
        rec(l) == Convert(call.converter, JsonLoads(l).val)
    IN  (/\ Streaming /\ fmt = NDJSON
         /\ \A i \in 1..Len(ne) : JsonLoads(ne[i]).ok /\ rec(ne[i]).ok) =>
            /\ Len(delivered) <= Len(ne)
            /\ \A i \in 1..Len(delivered) : delivered[i] = rec(ne[i]).val
            /\ it = "done" => Len(delivered) = Len(ne)
            /\ it = "active" => Len(delivered) = NonEmptyCount(Body, pos)

C6_Witness ==
    /\ Streaming /\ fmt = NDJSON /\ call.converter = "Game" /\ it = "done"
    /\ Body = << <<"{", "id", ":", "1", "}">>, <<"{", "createdAt", ":", "2", "}">> >>
    /\ delivered = <<DictVal("id" :> IntVal(1)), DictVal("createdAt" :> DatetimeVal(2))>>

\* a PGN game: lines of text, the first and the last with text at their ends,
\* no two empty lines in a row
IsGame(g) ==
    /\ g # <<>>
    /\ g[1] # <<>> /\ g[1][1] \notin Whitespace
    /\ g[Len(g)] # <<>> /\ g[Len(g)][Len(g[Len(g)])] \notin Whitespace
    /\ \A i \in 1..(Len(g) - 1) : ~(g[i] = <<>> /\ g[i + 1] = <<>>)

GameText(g) == StrVal(Join(g, NL))

\* C7 as stated: two games with exactly one empty line between them come out
\* as two strings, the text of the first and the text of the second.
C7_Original_OneBlankLineSplits ==
    \A i \in 1..Len(Body) :
        LET g1 == SubSeq(Body, 1, i - 1)
            g2 == SubSeq(Body, i + 1, Len(Body))
        IN  (fmt = PGN /\ Finished /\ Body[i] = <<>> /\ IsGame(g1) /\ IsGame(g2)) =>
                yielded = <<GameText(g1), GameText(g2)>>

\* C7, amended: two games with exactly two empty lines between them come out of
\* PgnHandler.parse_stream as exactly two strings, the text of the first game
\* and the text of the second, neither with leading or trailing blank lines.
C7_TwoBlankLinesSplit ==
    \A i \in 1..Len(Body) :
        LET g1 == SubSeq(Body, 1, i - 1)
            g2 == SubSeq(Body, i + 2, Len(Body))
        IN  (/\ fmt = PGN /\ Finished /\ i < Len(Body)
             /\ Body[i] = <<>> /\ Body[i + 1] = <<>>
             /\ IsGame(g1) /\ IsGame(g2)) =>
                /\ yielded = <<GameText(g1), GameText(g2)>>
                /\ \A u \in 1..2 : yielded[u].v = Strip(yielded[u].v)

C7_Witness ==
    /\ fmt = PGN /\ it = "done"
    /\ Body = << <<"a">>, <<>>, <<"b">>, <<>>, <<>>, <<"a">> >>
    /\ yielded = <<StrVal(<<"a", NL, NL, "b">>), StrVal(<<"a">>)>>

\* C8: a PGN stream that is not empty and has no empty line comes out as exactly
\* one unit, its lines joined by newlines and stripped of leading and trailing
\* whitespace.
C8_NoBlankLineOneUnit ==
    (/\ fmt = PGN /\ Streaming /\ Finished
     /\ Body # <<>> /\ \A i \in 1..Len(Body) : Body[i] # <<>>) =>
        yielded = <<StrVal(Strip(Join(Body, NL)))>>

C8_Witness ==
    /\ fmt = PGN /\ it = "done" /\ Len(yielded) = 1
    /\ Body = << <<SP>>, <<"a">>, <<"b">> >>
    /\ yielded[1] = StrVal(<<"a", NL, "b">>)

\* C9: when the PGN stream ends with lines in the buffer, parse_stream yields
\* them as one more unit and the next advance ends the sequence without another
\* unit; when the stream ends with the buffer empty the sequence ends without
\* another unit; an ended sequence yields nothing more.
C9_FinalFlush ==
    [][fmt = PGN =>
        /\ (it # "at_final" /\ it' = "at_final") =>
              /\ pos' = Len(Body) /\ lines' # <<>>
              /\ yielded' = Append(yielded, StrVal(Strip(Join(lines', NL))))
        /\ it = "at_final" => (it' = "done" /\ yielded' = yielded /\ last' = "stop")
        /\ (it \in {"fresh", "active"} /\ it' = "done") =>
              (pos' = Len(Body) /\ lines' = <<>> /\ yielded' = yielded)
        /\ it = "done" => (it' = "done" /\ yielded' = yielded)]_vars

C9_Witness ==
    /\ fmt = PGN /\ it = "done" /\ last = "stop"
    /\ Body = << <<"a">>, <<>>, <<>>, <<"b">> >>
    /\ yielded = <<StrVal(<<"a">>), StrVal(<<"b">>)>>

\* C10 as stated: for a body that is one JSON document, on one line or on
\* several, parse_stream of the JSON handler yields one unit, the value parse
\* returns for that body.
C10_Original_StreamEqualsParse ==
    (Streaming /\ fmt = JSON /\ it = "done" /\ Parse(JSON, Body).ok) =>
        yielded = <<Parse(JSON, Body).val>>

\* C10, amended: for a body that is one JSON document written on one line, every
\* other line being empty, parse_stream of the JSON handler yields exactly one
\* unit, the value parse returns for that body.
C10_SingleLineStreamEqualsParse ==
    (/\ Streaming /\ fmt = JSON /\ it = "done"
     /\ \E i \in 1..Len(Body) :
           /\ JsonLoads(Body[i]).ok
           /\ \A j \in 1..Len(Body) : j # i => Body[j] = <<>>) =>
        /\ Parse(JSON, Body).ok
        /\ yielded = <<Parse(JSON, Body).val>>
        /\ exc.cls # "JSONDecodeError"

C10_Witness ==
    /\ Streaming /\ fmt = JSON /\ it = "done" /\ call.converter = "noop"
    /\ Body = << <<>>, <<"{", "id", ":", "1", "}">> >>
    /\ yielded = <<DictVal("id" :> IntVal(1))>>
    /\ delivered = yielded

\* number of leading lines of ne that json.loads accepts
ValidPrefixLen(ne) ==
    Cardinality({n \in 1..Len(ne) : \A i \in 1..n : JsonLoads(ne[i]).ok})

\* C11: with the vendor-JSON handler LIJSON as with the plain JSON handler, a
\* buffered response gives the converter applied to the JSON decode of the whole
\* body, or the decoder's failure, and a streamed response gives the decodes of
\* the non-empty lines up to the first line that fails, then that failure: the
\* outcome is one function of the body for both; each sends its own Accept value.
C11_LijsonDecodesLikeJson ==
    (fmt \in {JSON, LIJSON} /\ pc # "idle") =>
        LET whole == JsonLoads(BodyText(Body))
            c == Convert(call.converter, whole.val)
            ne == NonEmptyLines(Body)
        IN  /\ sent.headers.Accept = MimeType(fmt)
            /\ MimeType(JSON) # MimeType(LIJSON)
            /\ (Received /\ response.status < 400 /\ ~call.stream) =>
                  /\ pc = "returned" <=> (whole.ok /\ c.ok)
                  /\ pc = "returned" => result = c.val
                  /\ pc = "raised" =>
                        exc.cls = (IF whole.ok THEN "TypeError" ELSE "JSONDecodeError")
            /\ Streaming =>
                  /\ Len(yielded) <= ValidPrefixLen(ne)
                  /\ \A i \in 1..Len(yielded) : yielded[i] = JsonLoads(ne[i]).val
                  /\ it = "done" =>
                        /\ Len(yielded) = ValidPrefixLen(ne)
                        /\ exc.cls = "JSONDecodeError" <=> ValidPrefixLen(ne) < Len(ne)

C11_Witness ==
    /\ fmt = LIJSON /\ pc = "returned" /\ ~call.stream /\ call.converter = "Game"
    /\ sent.headers.Accept = "application/vnd.lichess.v3+json"
    /\ Body = << <<>>, <<"{", "createdAt", ":", "2", "}">> >>
    /\ result = DictVal("createdAt" :> DatetimeVal(2))

\* the handler a call of request chooses: fmt when given, default_fmt otherwise
Chosen == IF call.fmt # None THEN call.fmt ELSE default_fmt

\* C12: in every call of request the local fmt is the fmt argument when one is
\* given and the default_fmt JSON otherwise; the Accept header sent is that of
\* this handler and the response is decoded by this handler; once chosen, before
\* the network call, it does not change.
C12_OneHandlerPerRequest ==
    /\ [](pc # "idle" =>
            /\ fmt = Chosen
            /\ sent.headers = Headers(Chosen)
            /\ (pc = "returned" /\ ~call.stream) =>
                  result = Convert(call.converter, Parse(Chosen, Body).val).val
            /\ \A i \in 1..Len(yielded) :
                  yielded[i].t = (CASE Chosen = TEXT -> "bytes"
                                    [] Chosen = PGN -> "str"
                                    [] OTHER -> JsonLoads(NonEmptyLines(Body)[i]).val.t))
    /\ [][pc # "idle" => (fmt' = fmt /\ sent' = sent /\ call' = call)]_vars

C12_Witness ==
    /\ call.fmt = None /\ fmt = JSON /\ sent.headers.Accept = "application/json"
    /\ pc = "returned" /\ call.stream /\ it = "active"
    /\ yielded = <<IntVal(1)>>

\* C13: every call of request invokes session.request exactly once, whether it
\* ends with a value, a sequence, an HTTP error or a transport failure; advancing
\* the sequence invokes it no further.
C13_OneRoundTrip ==
    /\ pc \in {"idle", "in_session"} => netCalls = 0
    /\ pc \in {"returned", "raised"} => netCalls = 1

C13_Witness ==
    /\ pc = "raised" /\ thrown.cls = "ConnectionError" /\ exc.cls = "ApiError"
    /\ netCalls = 1 /\ call.method = "POST"

\* C14: the message of every ResponseError is "HTTP {status_code}: {reason}",
\* followed by ": {cause}" exactly when a cause was parsed from the body; with a
\* body that is absent or not JSON it is exactly "HTTP {status_code}: {reason}".
C14_Original_MessageIsHttpForm ==
    exc.cls = "ResponseError" =>
        LET parsed == JsonLoads(BodyText(Body)) IN
            /\ exc.message.form = "HTTP"
            /\ exc.message.status = response.status
            /\ exc.message.reason = response.reason
            /\ exc.message.cause = (IF parsed.ok THEN parsed.val ELSE NoneVal)

\* C15: over the whole lifetime of a ResponseError its cause comes from at most
\* one JSON decode of the response body, and every read of cause returns the same
\* value: the decoded body when the decode succeeded (a decoded null included),
\* None when it failed.
C15_CauseDecodedOnce ==
    exc.cls = "ResponseError" =>
        LET decoded == JsonLoads(BodyText(Body)) IN
            /\ causeReads >= 1
            /\ causeDecodes <= 1
            /\ lastCause = (IF decoded.ok THEN decoded.val ELSE NoneVal)
            /\ exc.body_cause = lastCause

C15_Witness ==
    /\ exc.cls = "ResponseError" /\ Body = << <<"null">> >>
    /\ causeReads = 3 /\ causeDecodes = 1 /\ lastCause = NoneVal

\* the keys IntervalKeys names
IntervalKeySet == {IntervalKeys[i] : i \in DOMAIN IntervalKeys}

\* C16: Model.convert_one, and the converter built by utils.inner, applied to a
\* record with none of the keys it targets raises nothing and returns the record
\* with every key and every value as it was.
C16_NoTargetedKeyUnchanged ==
    /\ (convOp = "convert_one" /\ DOMAIN convIn.v \cap GameConversions = {}) =>
            convOut = ConvOk(convIn)
    /\ (convOp = "inner" /\ DOMAIN convIn.v \cap IntervalKeySet = {}) =>
            convOut = ConvOk(convIn)

C16_Witness ==
    /\ convOp = "inner"
    /\ convIn = DictVal(("id" :> IntVal(1)) @@ ("createdAt" :> StrVal(<<"id">>)))
    /\ convOut.ok /\ convOut.val = convIn

\* C17: Model.convert on a record returns when every conversion of a key of the
\* record returns; the record it returns has the keys of the record it was
\* given, the value of each key of the conversion table being the conversion of
\* the old value and the value of each other key being the old value.
C17_ConvertReplacesListedKeys ==
    convOp = "convert" =>
        LET ks == DOMAIN convIn.v \cap GameConversions IN
            /\ convOut.ok <=> \A k \in ks : DatetimeFromMillis(convIn.v[k]).ok
            /\ convOut.ok =>
                  /\ convOut.val.t = "dict"
                  /\ DOMAIN convOut.val.v = DOMAIN convIn.v
                  /\ \A k \in DOMAIN convIn.v :
                        convOut.val.v[k] = (IF k \in ks
                                            THEN DatetimeFromMillis(convIn.v[k]).val
                                            ELSE convIn.v[k])

C17_Witness ==
    /\ convOp = "convert"
    /\ convIn = DictVal(("createdAt" :> IntVal(1)) @@ ("id" :> IntVal(0))
                        @@ ("start" :> StrVal(<<"id">>)))
    /\ convOut = ConvOk(DictVal(("createdAt" :> DatetimeVal(1)) @@ ("id" :> IntVal(0))
                                @@ ("start" :> StrVal(<<"id">>))))

\* the response is ok, stream is false and the body was decoded
BufferedDecoded ==
    /\ Received /\ ~Rejected(response) /\ ~call.stream
    /\ Parse(fmt, Body).ok

\* C18 as stated: the converter is invoked once per record, each time with that
\* record, when the response is streamed and when a buffered response decodes
\* to a list of records.
C18_Original_ConverterPerRecord ==
    /\ Streaming => convArgs = yielded
    /\ (BufferedDecoded /\ Parse(fmt, Body).val.t = "list") =>
            convArgs = Parse(fmt, Body).val.v

\* C18: the converter is invoked once per record, with that record, when the
\* response is streamed; for a buffered response it is invoked exactly once, with
\* the whole decoded value, a list included, and Model.convert then converts each
\* record of the list on its own.
C18_ConverterOncePerDecodedValue ==
    /\ Streaming => (convArgs = yielded /\ convCalls = Len(yielded))
    /\ BufferedDecoded =>
          LET v == Parse(fmt, Body).val IN
            /\ convArgs = <<v>>
            /\ convCalls = 1
            /\ (v.t = "list" /\ call.converter = "Game") =>
                  /\ pc = "returned" <=> \A j \in DOMAIN v.v : ConvertOne(v.v[j]).ok
                  /\ pc = "returned" =>
                        result = ListVal([j \in DOMAIN v.v |-> ConvertOne(v.v[j]).val])

C18_Witness ==
    /\ fmt = NDJSON /\ ~call.stream /\ call.converter = "Game" /\ pc = "returned"
    /\ Body = << <<"{", "createdAt", ":", "2", "}">>, <<"{", "id", ":", "1", "}">> >>
    /\ convCalls = 1
    /\ convArgs = <<ListVal(<<DictVal("createdAt" :> IntVal(2)), DictVal("id" :> IntVal(1))>>)>>
    /\ result = ListVal(<<DictVal("createdAt" :> DatetimeVal(2)), DictVal("id" :> IntVal(1))>>)

\* C19: a streamed sequence is single-pass: an advance makes no network call,
\* delivers at most one unit more and never takes a delivered one back, a unit
\* is yielded only by reading further lines of the body, and once the sequence
\* has ended every further advance ends at once and delivers nothing.
C19_SinglePass ==
    [][Streaming =>
         /\ netCalls' = netCalls
         /\ pos' >= pos
         /\ Len(delivered') <= Len(delivered) + 1
         /\ SubSeq(delivered', 1, Len(delivered)) = delivered
         /\ SubSeq(yielded', 1, Len(yielded)) = yielded
         /\ Len(yielded') > Len(yielded) => pos' > pos
         /\ it = "done" =>
               /\ it' = "done" /\ last' = "stop"
               /\ delivered' = delivered /\ yielded' = yielded /\ pos' = pos]_vars

C19_Witness ==
    /\ Streaming /\ fmt = TEXT /\ it = "done" /\ extra = 1 /\ last = "stop"
    /\ Len(delivered) = 2 /\ netCalls = 1

\* C20: a line of a streamed JSON or NDJSON body that is not valid JSON leaves
\* Requestor.request returned; the advance that reaches the line raises the
\* JSONDecodeError of json.loads itself, which wraps no other exception and is
\* neither an ApiError nor a ResponseError, and the sequence is over.
C20_StreamDecodeErrorUnwrapped ==
    /\ last = "decode_error" =>
          /\ pc = "returned" /\ fmt \in JsonHandlers
          /\ pos >= 1 /\ Body[pos] # <<>> /\ ~JsonLoads(Body[pos]).ok
    /\ (Streaming /\ fmt \in JsonHandlers /\ pos >= 1 /\ Body[pos] # <<>>
           /\ ~JsonLoads(Body[pos]).ok) =>
          /\ last = "decode_error" \/ extra > 0
          /\ it = "done"
          /\ exc.cls = "JSONDecodeError"
          /\ exc.cls \notin {"ApiError", "ResponseError"}
          /\ exc.error = NoInner /\ exc.cause = NoInner

C20_Witness ==
    /\ Streaming /\ fmt = NDJSON /\ last = "decode_error"
    /\ Body = << <<"1">>, <<"[">> >> /\ pos = 2
    /\ delivered = <<IntVal(1)>> /\ exc.cls = "JSONDecodeError"

\* line i of the body is empty and so is the line before it
SecondEmpty(i) == i >= 2 /\ Body[i] = <<>> /\ Body[i - 1] = <<>>

\* C23: PgnHandler.parse_stream yields a unit before the end of the stream
\* exactly when it reads an empty line whose preceding line was empty too; every
\* other line it reads, empty after a line with text or as the first line, or
\* not empty, is appended to the buffer and yields nothing.
C23_YieldsOnSecondEmptyLine ==
    [][(fmt = PGN /\ Streaming /\ it \in {"fresh", "active"}) =>
         LET appended == IF it' = "active" THEN pos' - 1 ELSE pos' IN
            /\ \A i \in (pos + 1)..appended : ~SecondEmpty(i)
            /\ lines' = SubSeq(Body, pos + 1, appended)
            /\ it' = "active" =>
                  /\ SecondEmpty(pos')
                  /\ yielded' = Append(yielded, StrVal(Strip(Join(lines', NL))))
            /\ it' # "active" => pos' = Len(Body)]_vars

C23_Witness ==
    /\ fmt = PGN /\ it = "active" /\ pos = 4
    /\ Body = << <<"a">>, <<>>, <<>>, <<>>, <<"b">> >>
    /\ yielded = <<StrVal(<<"a">>), StrVal(<<>>)>>

\* one game with an isolated empty line: it starts and ends with text, has an
\* empty line and no two empty lines in a row
GameWithIsolatedBlank(g) == IsGame(g) /\ \E i \in 1..Len(g) : g[i] = <<>>

\* C24 as stated: there is a PGN stream holding one game with an isolated empty
\* line in its movetext from which PgnHandler.parse_stream yields more than one
\* unit.
C24_Original_IsolatedBlankLineSplits ==
    /\ fmt = PGN
    /\ \E b \in PgnBodies : GameWithIsolatedBlank(b) /\ Len(PgnUnits(b)) > 1

\* C24, amended: a PGN stream holding one game with isolated empty lines in its
\* movetext comes out of PgnHandler.parse_stream as exactly one unit, the text
\* of the whole game: an isolated empty line never splits a game.
C24_IsolatedBlankLineNeverSplits ==
    (fmt = PGN /\ Streaming /\ Finished /\ GameWithIsolatedBlank(Body)) =>
        /\ yielded = <<GameText(Body)>>
        /\ PgnUnits(Body) = yielded

C24_Witness ==
    /\ fmt = PGN /\ it = "done"
    /\ Body = << <<"a">>, <<>>, <<"b">>, <<>>, <<"a">> >>
    /\ yielded = <<StrVal(<<"a", NL, NL, "b", NL, NL, "a">>)>>

\* C26: every unit PgnHandler.parse_stream yields is a string that is not empty,
\* whatever the lines of the stream.
C26_Original_UnitsNotEmpty ==
    (fmt = PGN /\ Streaming) => \A i \in 1..Len(yielded) : yielded[i].v # <<>>

RECURSIVE SplitLines(_, _)
\* text.split("\n"), cur being the line read so far
SplitLines(s, cur) ==
    IF s = <<>> THEN <<cur>>
    ELSE IF Head(s) = NL THEN <<cur>> \o SplitLines(Tail(s), <<>>)
    ELSE SplitLines(Tail(s), Append(cur, Head(s)))

\* the lines of ls that have text, each without the whitespace around it
TextLines(ls) ==
    SelectSeq([i \in 1..Len(ls) |-> Strip(ls[i])], LAMBDA l : l # <<>>)

RECURSIVE UnitLines(_)
\* the lines of the units ys, in the order of the units
UnitLines(ys) ==
    IF ys = <<>> THEN <<>> ELSE SplitLines(Head(ys).v, <<>>) \o UnitLines(Tail(ys))

\* C27: when PgnHandler.parse_stream has consumed the stream to its end, the
\* lines with text of the units it yielded, in the order of the units, are the
\* lines with text of the stream in their order (each line taken without the
\* whitespace around it): none is lost, doubled, moved or put in two units.
C27_TextLinesPreserved ==
    (fmt = PGN /\ Streaming /\ Finished) =>
        TextLines(UnitLines(yielded)) = TextLines(Body)

C27_Witness ==
    /\ fmt = PGN /\ it = "done"
    /\ Body = << <<>>, <<"a">>, <<>>, <<>>, <<SP>>, <<"b">> >>
    /\ yielded = <<StrVal(<<"a">>), StrVal(<<"b">>)>>

RECURSIVE Accepted(_, _)
\* the conversions of the values ys the converter c returns for, in order
Accepted(c, ys) ==
    IF ys = <<>> THEN <<>>
    ELSE (IF Convert(c, Head(ys)).ok THEN <<Convert(c, Head(ys)).val>> ELSE <<>>)
         \o Accepted(c, Tail(ys))

\* the decoded values of the lines ls
Decoded(ls) == [i \in 1..Len(ls) |-> JsonLoads(ls[i]).val]

\* C28: when json.loads fails on a line of a streamed JSON or NDJSON body, the
\* non-empty lines before it have all been decoded and handed to the converter
\* in order and their records delivered, and the sequence is over: a later
\* advance ends it and delivers the record of no later line.
C28_DecodeFailureEndsSequence ==
    (Streaming /\ fmt \in JsonHandlers /\ exc.cls = "JSONDecodeError") =>
        LET before == NonEmptyLines(SubSeq(Body, 1, pos - 1)) IN
            /\ it = "done"
            /\ last = (IF extra = 0 THEN "decode_error" ELSE "stop")
            /\ \A i \in 1..Len(before) : JsonLoads(before[i]).ok
            /\ yielded = Decoded(before)
            /\ delivered = Accepted(call.converter, yielded)

C28_Witness ==
    /\ Streaming /\ fmt = NDJSON /\ exc.cls = "JSONDecodeError"
    /\ Body = << <<"[">>, <<"1">> >>
    /\ pos = 1 /\ extra = 1 /\ last = "stop" /\ delivered = <<>>

C30_GeneratorRequestsOnFirstAdvance ==
    IsGenerator(apiCall) =>
        /\ gen = "created" => (pc = "idle" /\ netCalls = 0 /\ exc = NoExc)
        /\ pc # "idle" => (gen = "started" /\ call.stream)
        /\ netCalls <= 1
        /\ exc.cls = "ResponseError" => (gen = "started" /\ netCalls = 1 /\ pc = "raised")

C30_Witness ==
    /\ apiCall.name = "export_by_player" /\ gen = "started"
    /\ exc.cls = "ResponseError" /\ exc.status_code = 404 /\ netCalls = 1

\* C25: when the response of get_code carries a state, the response is handed
\* back if that state is the one generated for the call, and otherwise an error
\* record is returned whose error is "unexpected_state" and whose state is the
\* state the server returned.
C25_Original_UnexpectedStateReported ==
    (oauth.pc = "returned" /\ Truthy(DictGet(oauth.response, "state"))) =>
        IF DictGet(oauth.response, "state") = StrVal(oauth.state)
        THEN oauth.returned = oauth.response
        ELSE /\ oauth.returned # oauth.response
             /\ DictGet(oauth.returned, "error") = StrVal(<<"unexpected_state">>)
             /\ DictGet(oauth.returned, "state") = DictGet(oauth.response, "state")

\* C21: nothing in Requestor.request holds a lock: a thread that is about to
\* call session.request can do so whatever the other thread is doing, so both
\* threads can be inside session.request of the shared session at once.
C21_NoLockAroundSession ==
    \A t \in Threads :
        threads[t].pc = "idle" => ENABLED ThreadRequest(t, FALSE, None, "noop")

C21_Witness ==
    /\ \A t \in Threads : threads[t].pc = "in_session"
    /\ requestor.session = "session"

\* C29: whatever the interleaving of two calls on one Requestor, each call ends
\* with what its own handler, converter and stream flag make of its own
\* response, and session, base_url and default_fmt of the Requestor stay as
\* they were.
C29_CallsAreIndependent ==
    /\ requestor = NewRequestor
    /\ \A t \in Threads :
          threads[t].pc \in {"returned", "raised"} =>
             IF threads[t].thrown # NoInner
             THEN /\ threads[t].outcome.kind = "raised"
                  /\ threads[t].outcome.exc.cls \in {"ApiError", threads[t].thrown.cls}
             ELSE threads[t].outcome =
                     RequestOutcome(IF threads[t].call.fmt # None THEN threads[t].call.fmt
                                    ELSE JSON,
                                    threads[t].call.stream, threads[t].call.converter,
                                    threads[t].response)

C29_Witness ==
    /\ threads[2].overlap
    /\ threads[1].call = [method |-> "GET", stream |-> FALSE, fmt |-> PGN, converter |-> "noop"]
    /\ threads[1].outcome.kind = "returned"
    /\ threads[1].outcome.val = StrVal(<<"{", "id", ":", "1", "}", NL>>)
    /\ threads[2].call = [method |-> "GET", stream |-> FALSE, fmt |-> None, converter |-> "Game"]
    /\ threads[2].outcome.kind = "returned"
    /\ threads[2].outcome.val = DictVal("createdAt" :> DatetimeVal(2))

====
